---- MODULE Spec2Model ----
(***************************************************************************)
(* A model of librarybot.py: a Discord bot that keeps a book library in    *)
(* three sqlite tables (books, users, loans) behind one shared connection  *)
(* and serves each chat command with an asyncio handler.                   *)
(*                                                                         *)
(* The tables are the state.  Every handler runs on one event loop, so the *)
(* statements between two awaits of a handler execute as one step.  The    *)
(* only awaits of `borrow` are fetch_user (line 235, before the first      *)
(* query) and the replies (lines 243, 264, 272, after the commit); the     *)
(* privileged handlers await nothing before their commit when the author   *)
(* is the administrator.  Timestamps are whole days on a bounded clock.    *)
(* Changes made on the shared connection are visible to every later        *)
(* statement whether or not they were committed, so a handler that raises  *)
(* before db.commit() still leaves its earlier statements applied.         *)
(***************************************************************************)
EXTENDS Integers, Sequences, FiniteSets, TLC

VARIABLES
    books,          \* table books: isbn -> [available]
    users,          \* table users: userid -> [banned]
    loans,          \* table loans, in rowid order
    foreign_keys,   \* PRAGMA foreign_keys of the connection
    now,            \* datetime.datetime.now(), in days
    last,           \* the command handled last and the reply it sent
    added,          \* history: copies ever added to each catalogued book (imported
                    \* count plus every positive add; removals are not subtracted)
    handlers,       \* borrow handlers in flight (concurrent specification)
    start,          \* history: tables at the start of the concurrent run
    overlap,        \* history: two borrow handlers were in flight at once
    steps           \* commands handled and clock ticks so far

vars == <<books, users, loans, foreign_keys, now, last, added, handlers, start, overlap, steps>>

-----------------------------------------------------------------------------
(* Configuration and the bounded input sets *)

ADMIN_USER == 0
MAX_LOANS == 2
LOAN_PERIOD == 1

\* the runs explored: at most MaxSteps commands and clock ticks
MaxSteps == 5

UserIds == {0, 1}
ISBNs == {"a", "b", "c"}
RenewDays == {-1, 2}
Counts == {-2, 1}
Handlers == {1, 2}

\* rows of the CSV file on disk: isbn -> value of the `available` column
CsvFile == [i \in {"a", "b"} |-> IF i = "a" THEN 1 ELSE 2]

NULL == -1

Abs(n) == IF n < 0 THEN 0 - n ELSE n

NoCommand == [cmd |-> "none", reply |-> ""]

Command(c, reply) == [cmd |-> c, reply |-> reply]

\* lines 514-516: auth_check answers a caller who is not the administrator
AuthFailure == Command("auth_check", "AuthFailure")

IdleHandler == [pc |-> "idle", user_id |-> NULL, isbn |-> "", reply |-> ""]

-----------------------------------------------------------------------------
(* Queries *)

\* rows of  SELECT ... FROM loans WHERE userid = u AND isbn = i AND returned IS FALSE
ActiveLoanRows(u, i) ==
    {k \in DOMAIN loans : loans[k].userid = u /\ loans[k].isbn = i /\ ~loans[k].returned}

\* a query that tests  returned IS TRUE  where line 248 tests  returned IS FALSE
unique_loan_returned(u, i) ==
    Cardinality({k \in DOMAIN loans :
        loans[k].userid = u /\ loans[k].isbn = i /\ loans[k].returned})

\* line 246-248
unique_loan(u, i) == Cardinality(ActiveLoanRows(u, i))

\* rows of  SELECT isbn FROM loans WHERE userid = u AND returned IS FALSE
current_loans(u) ==
    Cardinality({k \in DOMAIN loans : loans[k].userid = u /\ ~loans[k].returned})

\* the query of line 254 without  AND available >= 1
available_any_stock(i) == i \in DOMAIN books

\* SELECT * FROM books WHERE isbn IS i AND available >= 1  returned a row
available(i) == i \in DOMAIN books /\ books[i].available >= 1

auth_check(author) == author = ADMIN_USER

\* one more command or tick of a bounded run
Step == steps < MaxSteps /\ steps' = steps + 1

\* rows of loans that name the isbn (the children of the books row)
LoanRowsOf(i) == {k \in DOMAIN loans : loans[k].isbn = i}

-----------------------------------------------------------------------------
(* borrow, lines 234-272 *)

\* the gate of line 252 written with <= for <
UnderLoanLimit_inclusive(u) == current_loans(u) <= MAX_LOANS

\* line 252: the loan-limit gate
UnderLoanLimit(u) == current_loans(u) < MAX_LOANS

\* the handler without the banned branch of lines 242-245
BorrowReply_no_ban_gate(u, i) ==
    IF unique_loan(u, i) # 0 THEN "AlreadyOnLoan"
    ELSE IF ~UnderLoanLimit(u) THEN "LoanLimit"
    ELSE IF ~available(i) THEN "NotAvailable"
    ELSE "BookIsYours"

\* the handler with the loan-limit gate of line 252 ahead of the duplicate gate of line 249
BorrowReply_limit_first(u, i) ==
    IF u \in DOMAIN users /\ users[u].banned THEN "Banned"
    ELSE IF ~UnderLoanLimit(u) THEN "LoanLimit"
    ELSE IF unique_loan(u, i) # 0 THEN "AlreadyOnLoan"
    ELSE IF ~available(i) THEN "NotAvailable"
    ELSE "BookIsYours"

\* the branch the handler takes and so the message it sends
BorrowReply(u, i) ==
    IF u \in DOMAIN users /\ users[u].banned THEN "Banned"
    ELSE IF unique_loan(u, i) # 0 THEN "AlreadyOnLoan"
    ELSE IF ~UnderLoanLimit(u) THEN "LoanLimit"
    ELSE IF ~available(i) THEN "NotAvailable"
    ELSE "BookIsYours"

\* an INSERT INTO users that writes banned = 1 for an unknown author
UsersAfterBorrow_banned(u) ==
    IF u \in DOMAIN users THEN users
    ELSE [x \in DOMAIN users \cup {u} |-> IF x = u THEN [banned |-> TRUE] ELSE users[x]]

\* line 240: INSERT INTO users VALUES (name, user_id, 0) for an unknown author
UsersAfterBorrow(u) ==
    IF u \in DOMAIN users THEN users
    ELSE [x \in DOMAIN users \cup {u} |-> IF x = u THEN [banned |-> FALSE] ELSE users[x]]

\* line 257: UPDATE books SET available = available - 1 WHERE isbn IS i AND available >= 1
DecrementAvailable(i) ==
    IF i \in DOMAIN books /\ books[i].available >= 1
    THEN [books EXCEPT ![i].available = @ - 1]
    ELSE books

\* lines 258-260: the row INSERTed INTO loans
NewLoan(u, i) ==
    [rdate |-> NULL, bdate |-> now, estrdate |-> now + LOAN_PERIOD,
     returned |-> FALSE, userid |-> u, isbn |-> i]

\* lines 236-261: everything borrow does to the tables, between its awaits
BorrowTxn(u, i) ==
    /\ users' = UsersAfterBorrow(u)
    /\ IF BorrowReply(u, i) = "BookIsYours"
       THEN /\ books' = DecrementAvailable(i)
            /\ loans' = Append(loans, NewLoan(u, i))
       ELSE UNCHANGED <<books, loans>>

\* a borrow handler run from its first line to its last reply
Borrow(u, i) ==
    /\ Step
    /\ BorrowTxn(u, i)
    /\ last' = Command("borrow", BorrowReply(u, i))
    /\ UNCHANGED <<foreign_keys, now, added, handlers, start, overlap>>

-----------------------------------------------------------------------------
(* the privileged commands *)

\* lines 462-464: UPDATE loans SET returned = TRUE, rdate = now WHERE isbn IS i AND userid IS u
CloseLoans(i, u) ==
    [k \in DOMAIN loans |->
        IF loans[k].isbn = i /\ loans[k].userid = u
        THEN [loans[k] EXCEPT !.returned = TRUE, !.rdate = now]
        ELSE loans[k]]

\* line 461: UPDATE books SET available = available + 1 WHERE isbn IS i
IncrementAvailable(i) ==
    IF i \in DOMAIN books THEN [books EXCEPT ![i].available = @ + 1] ELSE books

\* return, lines 460-466
Return(author, i, u) ==
    /\ Step
    /\ IF auth_check(author)
       THEN /\ books' = IncrementAvailable(i)
            /\ loans' = CloseLoans(i, u)
            /\ last' = Command("return", "Returned")
       ELSE /\ UNCHANGED <<books, loans>>
            /\ last' = AuthFailure
    /\ UNCHANGED <<users, foreign_keys, now, added, handlers, start, overlap>>

\* a renew that subtracts the days from now
ExtendLoans_subtracts(i, u, days) ==
    [k \in DOMAIN loans |->
        IF loans[k].isbn = i /\ loans[k].userid = u
        THEN [loans[k] EXCEPT !.estrdate = now - days]
        ELSE loans[k]]

\* lines 362-364: UPDATE loans SET estrdate = now + days WHERE isbn IS i AND userid IS u
ExtendLoans(i, u, days) ==
    [k \in DOMAIN loans |->
        IF loans[k].isbn = i /\ loans[k].userid = u
        THEN [loans[k] EXCEPT !.estrdate = now + days]
        ELSE loans[k]]

\* renew, lines 361-366
Renew(author, i, u, days) ==
    /\ Step
    /\ IF auth_check(author)
       THEN /\ loans' = ExtendLoans(i, u, days)
            /\ last' = Command("renew", "Renewed")
       ELSE /\ UNCHANGED loans
            /\ last' = AuthFailure
    /\ UNCHANGED <<books, users, foreign_keys, now, added, handlers, start, overlap>>

\* lines 381, 398: UPDATE users SET banned = b WHERE userid IS u
SetBanned(u, b) ==
    IF u \in DOMAIN users THEN [users EXCEPT ![u].banned = b] ELSE users

\* ban, lines 380-383
Ban(author, u) ==
    /\ Step
    /\ IF auth_check(author)
       THEN /\ users' = SetBanned(u, TRUE)
            /\ last' = Command("ban", "UserBanned")
       ELSE /\ UNCHANGED users
            /\ last' = AuthFailure
    /\ UNCHANGED <<books, loans, foreign_keys, now, added, handlers, start, overlap>>

\* unban, lines 397-400
Unban(author, u) ==
    /\ Step
    /\ IF auth_check(author)
       THEN /\ users' = SetBanned(u, FALSE)
            /\ last' = Command("unban", "UserUnbanned")
       ELSE /\ UNCHANGED users
            /\ last' = AuthFailure
    /\ UNCHANGED <<books, loans, foreign_keys, now, added, handlers, start, overlap>>

\* line 414: UPDATE books SET available = available + count WHERE isbn IS i
AdjustAvailable(i, count) ==
    IF i \in DOMAIN books THEN [books EXCEPT ![i].available = @ + count] ELSE books

\* the body of add, lines 413-416, reached from `add` and from `remove`
AddCopies(cmd, author, i, count) ==
    /\ Step
    /\ IF auth_check(author)
       THEN /\ books' = AdjustAvailable(i, count)
            /\ added' = IF i \in DOMAIN added /\ count > 0
                        THEN [added EXCEPT ![i] = @ + count] ELSE added
            /\ last' = Command(cmd, "CountModified")
       ELSE /\ UNCHANGED <<books, added>>
            /\ last' = AuthFailure
    /\ UNCHANGED <<users, loans, foreign_keys, now, handlers, start, overlap>>

\* add, lines 413-416
Add(author, i, count) == AddCopies("add", author, i, count)

\* remove, line 429: invokes add with count = -abs(count)
Remove(author, i, count) == AddCopies("remove", author, i, 0 - Abs(count))

\* a delete that removes the book's loan rows instead of closing them
ForceCloseLoans_delete_rows(i) == SelectSeq(loans, LAMBDA r : r.isbn # i)

\* lines 442-444: UPDATE loans SET returned = TRUE, rdate = now WHERE isbn IS i
ForceCloseLoans(i) ==
    [k \in DOMAIN loans |->
        IF loans[k].isbn = i
        THEN [loans[k] EXCEPT !.returned = TRUE, !.rdate = now]
        ELSE loans[k]]

\* line 445 raises sqlite3.IntegrityError: with foreign keys enforced, a books row
\* that loans rows still reference cannot be deleted (loans.isbn REFERENCES books, line 85)
DeleteRefused(i) == foreign_keys /\ i \in DOMAIN books /\ LoanRowsOf(i) # {}

\* line 445: DELETE FROM books WHERE isbn IS i
Without(f, i) == [x \in DOMAIN f \ {i} |-> f[x]]

\* delete, lines 441-447
Delete(author, i) ==
    /\ Step
    /\ IF auth_check(author)
       THEN /\ loans' = ForceCloseLoans(i)
            /\ IF DeleteRefused(i)
               THEN /\ UNCHANGED <<books, added>>
                    /\ last' = Command("delete", "IntegrityError")
               ELSE /\ books' = Without(books, i)
                    /\ added' = Without(added, i)
                    /\ last' = Command("delete", "Deleted")
       ELSE /\ UNCHANGED <<books, loans, added>>
            /\ last' = AuthFailure
    /\ UNCHANGED <<users, foreign_keys, now, handlers, start, overlap>>

\* lines 103-118: INSERT INTO books each row of the file; a duplicate isbn is skipped
InsertRows(t, rows) ==
    [x \in DOMAIN t \cup DOMAIN rows |-> IF x \in DOMAIN t THEN t[x] ELSE rows[x]]

CsvBooks == [i \in DOMAIN CsvFile |-> [available |-> CsvFile[i]]]

\* load, lines 99-120
Load(author) ==
    /\ Step
    /\ IF auth_check(author)
       THEN /\ books' = InsertRows(books, CsvBooks)
            /\ added' = InsertRows(added, CsvFile)
            /\ last' = Command("load", "LoadComplete")
       ELSE /\ UNCHANGED <<books, added>>
            /\ last' = AuthFailure
    /\ UNCHANGED <<users, loans, foreign_keys, now, handlers, start, overlap>>

\* init, lines 77-88: the pragma and the schema run for any author, then load
InitCmd(author) ==
    /\ Step
    /\ foreign_keys' = TRUE
    /\ IF auth_check(author)
       THEN /\ books' = InsertRows(books, CsvBooks)
            /\ added' = InsertRows(added, CsvFile)
       ELSE UNCHANGED <<books, added>>
    /\ last' = Command("init", "Initialised")
    /\ UNCHANGED <<users, loans, now, handlers, start, overlap>>

\* the clock advances
Tick ==
    /\ Step
    /\ now' = now + 1
    /\ UNCHANGED <<books, users, loans, foreign_keys, last, added, handlers, start, overlap>>

-----------------------------------------------------------------------------
(* The bot serving one command at a time *)

EmptyTable == [x \in {} |-> NULL]

\* The process starts on a database that is new, or that an earlier run has
\* initialised and loaded; the connection starts without foreign-key enforcement.
Init ==
    /\ \/ books = EmptyTable /\ added = EmptyTable
       \/ books = CsvBooks /\ added = CsvFile
    /\ users = EmptyTable
    /\ loans = <<>>
    /\ foreign_keys = FALSE
    /\ now = 0
    /\ last = NoCommand
    /\ handlers = [h \in Handlers |-> IdleHandler]
    /\ start = [books |-> EmptyTable, users |-> EmptyTable]
    /\ overlap = FALSE
    /\ steps = 0

Next ==
    \/ \E u \in UserIds : InitCmd(u)
    \/ \E u \in UserIds : Load(u)
    \/ \E u \in UserIds, i \in ISBNs : Borrow(u, i)
    \/ \E a \in UserIds, i \in ISBNs, u \in UserIds : Return(a, i, u)
    \/ \E a \in UserIds, i \in ISBNs, u \in UserIds, d \in RenewDays : Renew(a, i, u, d)
    \/ \E a \in UserIds, u \in UserIds : Ban(a, u)
    \/ \E a \in UserIds, u \in UserIds : Unban(a, u)
    \/ \E a \in UserIds, i \in ISBNs, c \in Counts : Add(a, i, c)
    \/ \E a \in UserIds, i \in ISBNs, c \in Counts : Remove(a, i, c)
    \/ \E a \in UserIds, i \in ISBNs : Delete(a, i)
    \/ Tick

Spec == Init /\ [][Next]_vars

-----------------------------------------------------------------------------
(* Borrow handlers running concurrently on the event loop.  A handler gives  *)
(* up the loop only at an await: fetch_user (line 235), the banned reply     *)
(* (line 243), the notice to the administrator (line 264) and the reply to   *)
(* the author (line 272).                                                    *)

\* lines 234-235: the command arrives and the handler awaits fetch_user
HandlerInvoke(h, u, i) ==
    /\ handlers[h].pc = "idle"
    /\ handlers' = [handlers EXCEPT ![h] =
            [pc |-> "fetch_user", user_id |-> u, isbn |-> i, reply |-> ""]]
    /\ overlap' = (overlap \/ \E g \in Handlers \ {h} : handlers[g].pc = "fetch_user")
    /\ UNCHANGED <<books, users, loans, foreign_keys, now, last, added, start, steps>>

\* lines 236-261 (or 236-242, 266-271): from the users query to the next await
HandlerTxn(h) ==
    /\ handlers[h].pc = "fetch_user"
    /\ BorrowTxn(handlers[h].user_id, handlers[h].isbn)
    /\ handlers' = [handlers EXCEPT
            ![h].reply = BorrowReply(handlers[h].user_id, handlers[h].isbn),
            ![h].pc = IF BorrowReply(handlers[h].user_id, handlers[h].isbn) = "BookIsYours"
                      THEN "notify_admin" ELSE "respond"]
    /\ UNCHANGED <<foreign_keys, now, last, added, start, overlap, steps>>

\* line 264: await respond(ctx, ["New Loan from ..."], admin=True)
HandlerNotify(h) ==
    /\ handlers[h].pc = "notify_admin"
    /\ handlers' = [handlers EXCEPT ![h].pc = "respond"]
    /\ UNCHANGED <<books, users, loans, foreign_keys, now, last, added, start, overlap, steps>>

\* lines 243, 272: the reply to the author; the handler returns
HandlerRespond(h) ==
    /\ handlers[h].pc = "respond"
    /\ handlers' = [handlers EXCEPT ![h].pc = "done"]
    /\ last' = Command("borrow", handlers[h].reply)
    /\ UNCHANGED <<books, users, loans, foreign_keys, now, added, start, overlap, steps>>

\* tables the handlers can find: a loaded catalogue with any small stock, any
\* known users, banned or not, and no loans yet
StartBooks == [DOMAIN CsvFile -> [available : 0..2]]

StartUsers ==
    UNION {[S -> [banned : BOOLEAN]] : S \in SUBSET UserIds}

InitConc ==
    /\ books \in StartBooks
    /\ users \in StartUsers
    /\ loans = <<>>
    /\ foreign_keys \in BOOLEAN
    /\ now = 0
    /\ last = NoCommand
    /\ added = [i \in DOMAIN books |-> books[i].available]
    /\ handlers = [h \in Handlers |-> IdleHandler]
    /\ start = [books |-> books, users |-> users]
    /\ overlap = FALSE
    /\ steps = 0

NextConc ==
    \/ \E h \in Handlers, u \in UserIds, i \in ISBNs : HandlerInvoke(h, u, i)
    \/ \E h \in Handlers : HandlerTxn(h)
    \/ \E h \in Handlers : HandlerNotify(h)
    \/ \E h \in Handlers : HandlerRespond(h)

SpecConc == InitConc /\ [][NextConc]_vars

-----------------------------------------------------------------------------
(* search, lines 147-161.  The text columns of a book never change after    *)
(* load, so they are read from the file; a text is its sequence of ASCII    *)
(* codes.                                                                   *)

\* the title column of the file's rows: "Dune M" and "Dune"
CsvTitle == [i \in DOMAIN CsvFile |->
                IF i = "a" THEN <<68, 117, 110, 101, 32, 77>> ELSE <<68, 117, 110, 101>>]

\* the series column: "Dune" for a; the empty field of b is loaded as NULL (line 107)
CsvSeries == [i \in {"a"} |-> <<68, 117, 110, 101>>]

\* the scopes a user can type: the three of lines 149-159 and the docstring's 'loaned'
Scopes == {"all", "available", "unavailable", "loaned"}

\* attr: the default '*' and two of the columns
SearchAttrs == {"*", "title", "series"}

\* value: "dune", "M" and the default "*"
SearchValues == {<<100, 117, 110, 101>>, <<77>>, <<42>>}

\* the value of a column of a row, as the set of its texts: empty for NULL
Column(attr, i) ==
    IF attr = "title" THEN {CsvTitle[i]}
    ELSE IF i \in DOMAIN CsvSeries THEN {CsvSeries[i]}
    ELSE {}

\* LIKE folds the case of ASCII letters
Lower(c) == IF c >= 65 /\ c <= 90 THEN c + 32 ELSE c

\* text LIKE '%value%', for a value without wildcards
Contains(text, value) ==
    \E o \in 0..(Len(text) - Len(value)) :
        \A k \in 1..Len(value) : Lower(text[o + k]) = Lower(value[k])

\* attr LIKE '%value%': NULL is like nothing
Like(attr, i, value) == \E text \in Column(attr, i) : Contains(text, value)

\* the order of two texts under ORDER BY: byte by byte, a prefix first
TextBefore(x, y) ==
    \E k \in 1..(Len(x) + 1) :
        /\ \A j \in 1..(k - 1) : j <= Len(y) /\ x[j] = y[j]
        /\ \/ k > Len(x) /\ k <= Len(y)
           \/ k <= Len(x) /\ k <= Len(y) /\ x[k] < y[k]

\* SELECT ... ORDER BY title over the rows S
OrderByTitle(S) ==
    CHOOSE rows \in [1..Cardinality(S) -> S] :
        /\ \A k, l \in 1..Cardinality(S) : k # l => rows[k] # rows[l]
        /\ \A k, l \in 1..Cardinality(S) :
              k < l => ~TextBefore(CsvTitle[rows[l]], CsvTitle[rows[k]])

Rows(S) == [error |-> "", rows |-> OrderByTitle(S)]

\* the statement of lines 155-156 and 158-159 with attr = '*' is `WHERE * LIKE ...`,
\* which sqlite refuses: execute raises and the handler sends nothing
OperationalError == [error |-> "OperationalError", rows |-> <<>>]

\* lines 148-159: the rows search selects
search(scope, attr, value) ==
    IF scope = "all"
    THEN IF attr = "*"
         THEN Rows(DOMAIN books)
         ELSE Rows({i \in DOMAIN books : Like(attr, i, value)})
    ELSE IF scope = "available"
    THEN IF attr = "*" THEN OperationalError
         ELSE Rows({i \in DOMAIN books : Like(attr, i, value) /\ books[i].available >= 1})
    ELSE IF scope = "unavailable"
    THEN IF attr = "*" THEN OperationalError
         ELSE Rows({i \in DOMAIN books : Like(attr, i, value) /\ books[i].available = 0})
    ELSE Rows({})

\* search, lines 148-161
Search(scope, attr, value) ==
    /\ Step
    /\ last' = Command("search", search(scope, attr, value))
    /\ UNCHANGED <<books, users, loans, foreign_keys, now, added, handlers, start, overlap>>

\* the catalogue under the commands that change it, and the searches
NextSearch ==
    \/ Load(ADMIN_USER)
    \/ \E u \in UserIds, i \in ISBNs : Borrow(u, i)
    \/ \E i \in ISBNs, c \in Counts : Add(ADMIN_USER, i, c)
    \/ \E i \in ISBNs, c \in Counts : Remove(ADMIN_USER, i, c)
    \/ \E i \in ISBNs : Delete(ADMIN_USER, i)
    \/ \E scope \in Scopes, attr \in SearchAttrs, value \in SearchValues :
          Search(scope, attr, value)

SpecSearch == Init /\ [][NextSearch]_vars

-----------------------------------------------------------------------------
(* due, lines 330-347, and the overdue listing of loans, lines 182-184.     *)
(* Here the clock counts the smallest unit of a datetime; a date is stored  *)
(* in loans as the text str(datetime) and read back by strptime.            *)

\* units of the clock in a second, and seconds in a day
TicksPerSecond == 2
SecondsPerDay == 2
TicksPerDay == TicksPerSecond * SecondsPerDay

\* the latest time of the clock and of a due date
MaxTime == 9

\* str(datetime): '%Y-%m-%d %H:%M:%S' followed by '.%f' only when the
\* microsecond is not 0
StrDatetime(t) ==
    [seconds |-> t \div TicksPerSecond,
     fraction |-> IF t % TicksPerSecond = 0 THEN <<>> ELSE <<t % TicksPerSecond>>]

\* line 342: strptime(text, '%Y-%m-%d %H:%M:%S.%f') raises ValueError for a text
\* without the fraction
Parses(text) == text.fraction # <<>>

strptime(text) == text.seconds * TicksPerSecond + text.fraction[1]

\* line 183: estrdate < str(now) compares the texts: fields of fixed width
\* compare as numbers, and a text without fraction is a prefix of those with one
TextLess(x, y) ==
    \/ x.seconds < y.seconds
    \/ /\ x.seconds = y.seconds
       /\ \/ x.fraction = <<>> /\ y.fraction # <<>>
          \/ x.fraction # <<>> /\ y.fraction # <<>> /\ x.fraction[1] < y.fraction[1]

\* timedelta.days: the whole days of a difference, rounded down
Days(delta) == delta \div TicksPerDay

\* line 344: remaining = (date_obj - now).days + 1
remaining(estrdate) == Days(strptime(estrdate) - now) + 1

\* lines 332-333: the active loans of the author, in row order
DueRows(u) == SelectSeq(loans, LAMBDA r : r.userid = u /\ ~r.returned)

\* lines 340-345 and 545: one entry for each loan, or ValueError from line 342
DueReply(u) ==
    IF DueRows(u) = <<>> THEN [error |-> "NoLoans", rows |-> <<>>]
    ELSE IF \E k \in DOMAIN DueRows(u) : ~Parses(StrDatetime(DueRows(u)[k].estrdate))
    THEN [error |-> "ValueError", rows |-> <<>>]
    ELSE [error |-> "",
          rows |-> [k \in DOMAIN DueRows(u) |->
                      [isbn |-> DueRows(u)[k].isbn,
                       remaining |-> remaining(StrDatetime(DueRows(u)[k].estrdate)),
                       overdue |-> remaining(StrDatetime(DueRows(u)[k].estrdate)) <= 0]]]

\* due, lines 330-347
Due(u) ==
    /\ last' = Command("due", DueReply(u))
    /\ UNCHANGED <<books, users, loans, foreign_keys, now, added, handlers, start, overlap, steps>>

\* lines 182-184: SELECT * FROM loans WHERE estrdate < str(now) AND returned IS FALSE
overdue ==
    SelectSeq(loans, LAMBDA r : ~r.returned /\ TextLess(StrDatetime(r.estrdate), StrDatetime(now)))

\* loans overdue, lines 173-185
LoansOverdue(author) ==
    /\ last' = IF auth_check(author)
               THEN Command("loans", [error |-> "", rows |-> overdue])
               ELSE AuthFailure
    /\ UNCHANGED <<books, users, loans, foreign_keys, now, added, handlers, start, overlap, steps>>

\* the clock advances by its smallest unit
TickDue ==
    /\ now < MaxTime
    /\ now' = now + 1
    /\ UNCHANGED <<books, users, loans, foreign_keys, last, added, handlers, start, overlap, steps>>

\* a loaded catalogue and one user holding one loan of any due date, at any time
InitDue ==
    /\ books = CsvBooks
    /\ added = CsvFile
    /\ users = [u \in {1} |-> [banned |-> FALSE]]
    /\ \E e \in 0..MaxTime :
          loans = <<[rdate |-> NULL, bdate |-> 0, estrdate |-> e,
                     returned |-> FALSE, userid |-> 1, isbn |-> "a"]>>
    /\ foreign_keys = FALSE
    /\ now \in 0..MaxTime
    /\ last = NoCommand
    /\ handlers = [h \in Handlers |-> IdleHandler]
    /\ start = [books |-> EmptyTable, users |-> EmptyTable]
    /\ overlap = FALSE
    /\ steps = 0

NextDue ==
    \/ \E u \in UserIds : Due(u)
    \/ \E a \in UserIds : LoansOverdue(a)
    \/ TickDue

SpecDue == InitDue /\ [][NextDue]_vars

-----------------------------------------------------------------------------
(* Properties *)

ActiveIn(ls, u, i) ==
    {k \in DOMAIN ls : ls[k].userid = u /\ ls[k].isbn = i /\ ~ls[k].returned}

ActiveOfUser(ls, u) == {k \in DOMAIN ls : ls[k].userid = u /\ ~ls[k].returned}

ActiveOfBook(ls, i) == {k \in DOMAIN ls : ls[k].isbn = i /\ ~ls[k].returned}

ReturnedOfUser(ls, u) == {k \in DOMAIN ls : ls[k].userid = u /\ ls[k].returned}

IsBanned(u) == u \in DOMAIN users /\ users[u].banned

\* C1: after every Borrow, Return, add and remove the available count of every
\* book is >= 0; a removal larger than the stock leaves it at 0.
C1_AvailableNeverNegative == \A i \in DOMAIN books : books[i].available >= 0

\* C2: in every reachable state each (userid, isbn) pair has at most one loan
\* row with returned = FALSE.
C2_NoDuplicateActiveLoan ==
    \A u \in UserIds, i \in ISBNs : Cardinality(ActiveIn(loans, u, i)) <= 1

\* a duplicate borrow was refused while the pair's one active loan stands
C2_Witness ==
    /\ last = Command("borrow", "AlreadyOnLoan")
    /\ \E u \in UserIds, i \in ISBNs :
          /\ Cardinality(ActiveIn(loans, u, i)) = 1
          /\ \E k \in ReturnedOfUser(loans, u) : loans[k].isbn = i

AllDone == \A h \in Handlers : handlers[h].pc = "done"

\* the user could borrow when the handlers started: not banned (no loans exist yet)
EligibleAtStart(u) == u \notin DOMAIN start.users \/ ~start.users[u].banned

Replies == [h \in Handlers |-> handlers[h].reply]

\* C4: two borrow handlers of different eligible users for the one available copy
\* of a book, interleaved at every await: exactly one is answered with the loan
\* and creates it, the other is answered not-available and creates none, and the
\* book ends with available = 0.
C4_LastCopyRace ==
    \A i \in DOMAIN start.books :
        ( /\ AllDone
          /\ start.books[i].available = 1
          /\ handlers[1].isbn = i /\ handlers[2].isbn = i
          /\ handlers[1].user_id # handlers[2].user_id
          /\ EligibleAtStart(handlers[1].user_id)
          /\ EligibleAtStart(handlers[2].user_id) ) =>
            /\ \E h \in Handlers : \E g \in Handlers \ {h} :
                  /\ Replies[h] = "BookIsYours"
                  /\ Replies[g] = "NotAvailable"
                  /\ Cardinality(ActiveIn(loans, handlers[h].user_id, i)) = 1
                  /\ ActiveIn(loans, handlers[g].user_id, i) = {}
            /\ Len(loans) = 1
            /\ books[i].available = 0

\* both handlers awaited fetch_user at once and have since finished the race
C4_Witness ==
    /\ AllDone /\ overlap
    /\ \E i \in DOMAIN start.books :
          /\ start.books[i].available = 1
          /\ handlers[1].isbn = i /\ handlers[2].isbn = i
          /\ handlers[1].user_id # handlers[2].user_id
          /\ handlers[1].user_id \notin DOMAIN start.users
          /\ EligibleAtStart(handlers[2].user_id)
          /\ Replies[2] = "BookIsYours" /\ Replies[1] = "NotAvailable"

\* C5: two borrow handlers for the same (userid, isbn) on a book with at least two
\* available copies, interleaved at every await, the user known or not: exactly
\* one creates an active loan, the other is answered already-on-loan, and
\* available decreases by exactly 1.
C5_SamePairRace ==
    \A i \in DOMAIN start.books :
        ( /\ AllDone
          /\ start.books[i].available >= 2
          /\ handlers[1].isbn = i /\ handlers[2].isbn = i
          /\ handlers[1].user_id = handlers[2].user_id
          /\ EligibleAtStart(handlers[1].user_id) ) =>
            /\ \E h \in Handlers : \E g \in Handlers \ {h} :
                  /\ Replies[h] = "BookIsYours"
                  /\ Replies[g] = "AlreadyOnLoan"
            /\ Cardinality(ActiveIn(loans, handlers[1].user_id, i)) = 1
            /\ Len(loans) = 1
            /\ books[i].available = start.books[i].available - 1

\* an unknown user's two overlapping borrows of one book have both finished
C5_Witness ==
    /\ AllDone /\ overlap
    /\ \E i \in DOMAIN start.books :
          /\ start.books[i].available >= 2
          /\ handlers[1].isbn = i /\ handlers[2].isbn = i
          /\ handlers[1].user_id = handlers[2].user_id
          /\ handlers[1].user_id \notin DOMAIN start.users
          /\ Replies[1] = "AlreadyOnLoan" /\ Replies[2] = "BookIsYours"

\* C6: for every book the number of active loans is at most the copies ever added
\* to it.  `added` counts the imported copies and every addition and subtracts no
\* removal, so it is never below the net sum of the add / remove counts: a state
\* with more active loans than `added` has more than the net sum as well.
C6_LoansWithinCopiesAdded ==
    \A i \in DOMAIN books : Cardinality(ActiveOfBook(loans, i)) <= added[i]

\* C7: a return for a (userid, isbn) pair with no active loan changes neither the
\* books nor the loans (and so a loan returned twice adds one copy, not two).
C7_ReturnNeedsActiveLoan ==
    [][\A i \in ISBNs, u \in UserIds :
          (last'.cmd = "return" /\ Return(ADMIN_USER, i, u) /\ ActiveIn(loans, u, i) = {}) =>
              (books' = books /\ loans' = loans)
      ]_vars

\* C8: while a user is banned every borrow of theirs is answered banned and
\* changes no table; a return of an active loan they hold closes it and adds one
\* to the book's available count; ban changes no loan.
C8_BanBlocksBorrowNotReturn ==
    [][\A u \in UserIds :
        /\ \A i \in ISBNs : (last'.cmd = "borrow" /\ IsBanned(u) /\ Borrow(u, i)) =>
              /\ last'.reply = "Banned"
              /\ UNCHANGED <<books, users, loans>>
        /\ \A i \in ISBNs :
              (last'.cmd = "return" /\ IsBanned(u) /\ Return(ADMIN_USER, i, u)
                    /\ ActiveIn(loans, u, i) # {}) =>
                  /\ last'.reply = "Returned"
                  /\ ActiveIn(loans', u, i) = {}
                  /\ \A k \in ActiveIn(loans, u, i) : loans'[k].returned
                  /\ i \in DOMAIN books /\ i \in DOMAIN books'
                  /\ books'[i].available = books[i].available + 1
        /\ (last'.cmd = "ban" /\ Ban(ADMIN_USER, u)) => loans' = loans
      ]_vars

\* a banned user's loan has just been returned
C8_Witness ==
    /\ last = Command("return", "Returned")
    /\ \E u \in UserIds :
          /\ IsBanned(u)
          /\ \E k \in ReturnedOfUser(loans, u) : loans[k].rdate = now
          /\ ActiveOfUser(loans, u) = {}

\* C9: renew of an active loan at time T sets that loan's estrdate to T + days
\* and changes nothing else: not its other fields, not any other loan row, not
\* the books, not the users.
C9_RenewChangesOnlyDueDate ==
    [][\A i \in ISBNs, u \in UserIds, d \in RenewDays :
          (last'.cmd = "renew" /\ Renew(ADMIN_USER, i, u, d) /\ ActiveIn(loans, u, i) # {}) =>
              /\ DOMAIN loans' = DOMAIN loans
              /\ \A k \in DOMAIN loans :
                    loans'[k] = IF k \in ActiveIn(loans, u, i)
                                THEN [loans[k] EXCEPT !.estrdate = now + d]
                                ELSE loans[k]
              /\ UNCHANGED <<books, users>>
      ]_vars

\* C10: renew for a (userid, isbn) pair with no active loan, returned loans of the
\* pair included, changes no loan row.
C10_RenewNeedsActiveLoan ==
    [][\A i \in ISBNs, u \in UserIds, d \in RenewDays :
          (last'.cmd = "renew" /\ Renew(ADMIN_USER, i, u, d) /\ ActiveIn(loans, u, i) = {}) =>
              loans' = loans
      ]_vars

\* C11: every loan row has estrdate >= bdate and, once rdate is set, rdate >= bdate,
\* after any Borrow, Renew (any integer days), Return and Delete at
\* non-decreasing times.
C11_DatesAfterBorrowDate ==
    \A k \in DOMAIN loans :
        /\ loans[k].estrdate >= loans[k].bdate
        /\ loans[k].rdate # NULL => loans[k].rdate >= loans[k].bdate

\* a renew of a negative number of days by the administrator
RenewsBackwards ==
    /\ last'.cmd = "renew"
    /\ \E i \in ISBNs, u \in UserIds, d \in RenewDays : d < 0 /\ Renew(ADMIN_USER, i, u, d)

\* C11 as amended: every command other than a renew of a negative number of days
\* keeps estrdate >= bdate and rdate >= bdate (when set) on every loan row, so
\* the dates stay ordered in every run of Borrow, Renew with days >= 0, Return
\* and Delete at non-decreasing times.
C11_DatesKeptUnlessRenewedBackwards ==
    [][(C11_DatesAfterBorrowDate /\ ~RenewsBackwards) => C11_DatesAfterBorrowDate']_vars

\* a loan borrowed on an earlier day has just been renewed forwards
C11_Witness ==
    /\ last = Command("renew", "Renewed")
    /\ C11_DatesAfterBorrowDate
    /\ \E k \in DOMAIN loans :
          /\ loans[k].bdate < now
          /\ loans[k].estrdate = now + 2

\* C12: a loan row is created active, a returned row stays returned in every
\* later state, and no command removes or renumbers a loan row.
C12_ReturnedIsTerminal ==
    [][/\ Len(loans') >= Len(loans)
       /\ \A k \in DOMAIN loans :
             /\ loans[k].returned => loans'[k].returned
             /\ loans'[k].userid = loans[k].userid
             /\ loans'[k].isbn = loans[k].isbn
             /\ loans'[k].bdate = loans[k].bdate
       /\ \A k \in DOMAIN loans' \ DOMAIN loans : ~loans'[k].returned
      ]_vars

\* a book whose loans were all returned has just been deleted, and its loan rows
\* are still in the ledger, returned
C12_Witness ==
    /\ last = Command("delete", "Deleted")
    /\ \E k \in DOMAIN loans :
          /\ loans[k].returned
          /\ loans[k].isbn \notin DOMAIN books
          /\ loans[k].rdate < now

\* C13: a delete of a book in the catalogue removes the book and closes exactly
\* its active loans with rdate = now: afterwards the book is absent, no active
\* loan names it, every other loan row and every other book is as it was.
C13_DeleteForceCloses ==
    [][\A i \in ISBNs :
          (last'.cmd = "delete" /\ i \in DOMAIN books /\ Delete(ADMIN_USER, i)) =>
              /\ i \notin DOMAIN books'
              /\ ActiveOfBook(loans', i) = {}
              /\ DOMAIN loans' = DOMAIN loans
              /\ \A k \in DOMAIN loans :
                    loans'[k] = IF k \in ActiveOfBook(loans, i)
                                THEN [loans[k] EXCEPT !.returned = TRUE, !.rdate = now]
                                ELSE loans[k]
              /\ \A j \in DOMAIN books \ {i} : j \in DOMAIN books' /\ books'[j] = books[j]
      ]_vars

\* C14: a delete, add, remove or return that names an isbn absent from the
\* catalogue changes no book, no user and no loan row.
C14_AbsentBookChangesNothing ==
    [][\A i \in ISBNs :
          (/\ last'.cmd \in {"delete", "add", "remove", "return"}
           /\ i \notin DOMAIN books
           /\ \/ Delete(ADMIN_USER, i)
              \/ \E c \in Counts : Add(ADMIN_USER, i, c) \/ Remove(ADMIN_USER, i, c)
              \/ \E u \in UserIds : Return(ADMIN_USER, i, u)) =>
              UNCHANGED <<books, users, loans>>
      ]_vars

\* C15: a ban or unban of a user id with no users row is answered as a failure
\* and leaves the users table as it was.
C15_BanUnknownUserFails ==
    [][\A u \in UserIds :
          (/\ last'.cmd \in {"ban", "unban"}
           /\ u \notin DOMAIN users
           /\ (Ban(ADMIN_USER, u) \/ Unban(ADMIN_USER, u))) =>
              /\ users' = users
              /\ last'.reply \notin {"UserBanned", "UserUnbanned"}
      ]_vars

\* C16: a borrow that is refused leaves books, users and loans as they were,
\* also when the borrower had no users row.
C16_FailedBorrowChangesNothing ==
    [][\A u \in UserIds, i \in ISBNs :
          (last'.cmd = "borrow" /\ last'.reply # "BookIsYours" /\ Borrow(u, i)) =>
              UNCHANGED <<books, users, loans>>
      ]_vars

\* C16 as amended: a borrow that is refused leaves books and loans as they were
\* and every existing users row as it was; the one change it can make is the new,
\* unbanned users row of a borrower who had none.
C16_FailedBorrowOnlyCreatesUser ==
    [][\A u \in UserIds, i \in ISBNs :
          (last'.cmd = "borrow" /\ last'.reply # "BookIsYours" /\ Borrow(u, i)) =>
              /\ books' = books
              /\ loans' = loans
              /\ DOMAIN users' = DOMAIN users \cup {u}
              /\ \A x \in DOMAIN users : users'[x] = users[x]
              /\ u \notin DOMAIN users => ~users'[u].banned
      ]_vars

\* a borrow has just been refused, and a user who never had a loan has a users row
C16_Witness ==
    /\ last = Command("borrow", "NotAvailable")
    /\ loans = <<>>
    /\ \E u \in DOMAIN users : ~users[u].banned

\* what the specification says a borrow ends in
ClaimedBorrowOutcome(u, i) ==
    IF IsBanned(u) THEN "Banned"
    ELSE IF ActiveIn(loans, u, i) # {} THEN "DuplicateLoan"
    ELSE IF Cardinality(ActiveOfUser(loans, u)) >= MAX_LOANS THEN "LoanLimitExceeded"
    ELSE IF i \notin DOMAIN books THEN "BookNotFound"
    ELSE IF books[i].available < 1 THEN "Unavailable"
    ELSE "Success"

\* C17: borrow reports the first failing gate in the order banned, duplicate
\* loan, loan limit, book absent, book unavailable: the reply of a borrow tells
\* which of these outcomes it had, so no two borrows that the same state answers
\* alike have different outcomes.
C17_ReplyTellsFirstFailedGate ==
    [][\A u \in UserIds, i \in ISBNs :
          (last'.cmd = "borrow" /\ Borrow(u, i)) =>
              \A u2 \in UserIds, i2 \in ISBNs :
                  BorrowReply(u2, i2) = last'.reply =>
                      ClaimedBorrowOutcome(u2, i2) = ClaimedBorrowOutcome(u, i)
      ]_vars

\* C17 as amended: borrow reports the first failing gate in the order banned,
\* duplicate loan, loan limit, book not available, where an absent book and a
\* book with available < 1 get the same not-available reply.
C17_GateOrder ==
    [][\A u \in UserIds, i \in ISBNs :
          (last'.cmd = "borrow" /\ Borrow(u, i)) =>
              last'.reply =
                  IF IsBanned(u) THEN "Banned"
                  ELSE IF ActiveIn(loans, u, i) # {} THEN "AlreadyOnLoan"
                  ELSE IF Cardinality(ActiveOfUser(loans, u)) >= MAX_LOANS THEN "LoanLimit"
                  ELSE IF i \notin DOMAIN books \/ books[i].available < 1 THEN "NotAvailable"
                  ELSE "BookIsYours"
      ]_vars

\* a user holding MAX_LOANS loans has just asked for a book they already hold:
\* the duplicate gate and the limit gate both fail, the duplicate one is reported
C17_Witness ==
    /\ last = Command("borrow", "AlreadyOnLoan")
    /\ \E u \in UserIds : Cardinality(ActiveOfUser(loans, u)) = MAX_LOANS
    /\ \A u \in UserIds : ActiveOfUser(loans, u) # {} =>
          Cardinality(ActiveOfUser(loans, u)) >= MAX_LOANS

\* C20: a loan row that is returned keeps every field in every later step.
C20_ReturnedLoanFrozen ==
    [][\A k \in DOMAIN loans :
          loans[k].returned => (k \in DOMAIN loans' /\ loans'[k] = loans[k])
      ]_vars

\* the books a search of the scope should find
InScope(scope, i) ==
    \/ scope = "all"
    \/ scope = "available" /\ books[i].available >= 1
    \/ scope = "unavailable" /\ books[i].available = 0

Found(reply) == {reply.rows[k] : k \in DOMAIN reply.rows}

\* C18: for each of the scopes all, available and unavailable, a search with
\* attr '*' returns every book of the scope and a search with a named attr
\* returns exactly the books of the scope whose column contains the value, in
\* the order of their titles; and what the scope all finds is what the scopes
\* available and unavailable find together.
C18_SearchScopes ==
    [][\A scope \in {"all", "available", "unavailable"}, attr \in SearchAttrs,
             value \in SearchValues :
          (last'.cmd = "search" /\ Search(scope, attr, value)) =>
              /\ last'.reply.error = ""
              /\ Found(last'.reply) =
                     {i \in DOMAIN books :
                         InScope(scope, i) /\ (attr = "*" \/ Like(attr, i, value))}
              /\ \A k, l \in DOMAIN last'.reply.rows :
                    k < l => ~TextBefore(CsvTitle[last'.reply.rows[l]],
                                         CsvTitle[last'.reply.rows[k]])
              /\ Found(search("all", attr, value)) =
                     Found(search("available", attr, value))
                         \cup Found(search("unavailable", attr, value))
      ]_vars

\* C19: for each active loan of the author, due reports remaining = the whole
\* days of (estrdate - now), rounded down, plus 1, and that loan counts as
\* overdue (remaining <= 0) exactly when estrdate < now, which is exactly when
\* the overdue listing selects it.
C19_DaysRemaining ==
    [][\A u \in UserIds :
          (last'.cmd = "due" /\ Due(u) /\ ActiveOfUser(loans, u) # {}) =>
              /\ last'.reply.error = ""
              /\ Len(last'.reply.rows) = Cardinality(ActiveOfUser(loans, u))
              /\ \A k \in DOMAIN last'.reply.rows :
                    \E j \in ActiveOfUser(loans, u) :
                        /\ loans[j].isbn = last'.reply.rows[k].isbn
                        /\ \E d \in -MaxTime..MaxTime :
                              /\ d * TicksPerDay <= loans[j].estrdate - now
                              /\ loans[j].estrdate - now < (d + 1) * TicksPerDay
                              /\ last'.reply.rows[k].remaining = d + 1
                        /\ last'.reply.rows[k].remaining <= 0 <=> loans[j].estrdate < now
                        /\ last'.reply.rows[k].remaining <= 0 <=>
                              \E o \in DOMAIN overdue : overdue[o] = loans[j]
      ]_vars

\* a privileged command sent by the author
Privileged(author) ==
    \/ InitCmd(author)
    \/ Load(author)
    \/ \E i \in ISBNs, u \in UserIds, d \in RenewDays : Renew(author, i, u, d)
    \/ \E u \in UserIds : Ban(author, u) \/ Unban(author, u)
    \/ \E i \in ISBNs, c \in Counts : Add(author, i, c) \/ Remove(author, i, c)
    \/ \E i \in ISBNs : Delete(author, i)
    \/ \E i \in ISBNs, u \in UserIds : Return(author, i, u)

\* C21: a privileged command sent by a user who is not the administrator
\* changes nothing of the database: not the books, users and loans tables, and
\* not the enforcement of foreign keys that the later commands run under.
C21_OnlyAdminMutates ==
    [][\A author \in UserIds \ {ADMIN_USER} :
          ((last' = AuthFailure \/ last'.cmd = "init") /\ Privileged(author)) =>
              UNCHANGED <<books, users, loans, foreign_keys>>
      ]_vars

====
